---- MODULE Spec2Model ----
(***************************************************************************)
(* pkaul/statusci: the polling Jenkins job widget (JenkinsJobComponent)    *)
(* and the REST client it fetches through (RestClient).                    *)
(*                                                                         *)
(* JavaScript objects are records whose DOMAIN is the set of defined       *)
(* properties; a property that is missing reads as undefined (falsy).      *)
(* this.state starts undefined, modelled as the record with no fields.     *)
(* setState merges the update into the state (Object.assign).              *)
(* Promise reactions run as microtasks: a handler chain that follows a     *)
(* settled fetch runs to its end before any other event, so it is one      *)
(* action.                                                                 *)
(***************************************************************************)
EXTENDS Integers, Sequences, FiniteSets, TLC

VARIABLES
    props,          \* w -> JobProperties the instance was constructed with
    lifecycle,      \* w -> "absent" | "failed" | "constructed" | "mounted" | "unmounted"
    state,          \* w -> this.state
    triggerHandle,  \* w -> this._triggerHandle (0: undefined)
    timers,         \* the window's pending timeouts: [handle, owner, delay]
    cycles,         \* w -> the unsettled loadJob promises of the instance
    lastCycle,      \* w -> how the last completed cycle ended (history)
    rest,           \* one RestClient.request call
    now,            \* new Date().getTime() (render clock)
    tile            \* the element the last renderJob returned

widgetVars == <<props, lifecycle, state, triggerHandle, timers, cycles, lastCycle>>
restVars   == <<rest>>
renderVars == <<now, tile>>
vars == <<props, lifecycle, state, triggerHandle, timers, cycles, lastCycle,
          rest, now, tile>>

----------------------------------------------------------------------------
(* Constants of the component *)

LOADING       == "loading"
LOADING_DONE  == "loading-done"
LOADING_ERROR == "loading-error"

refreshInterval == 5000

\* renderJob: the age interval, 6 hours
AgeIntervalMillis == 6 * 60 * 60 * 1000

\* Styles (./Styles): the four display classes
STATUS_SUCCESS == "success"
STATUS_WARN    == "warning"
STATUS_ERROR   == "error"
STATUS_NONE    == "none"

\* JenkinsBuildStatus (./JenkinsClient)
JenkinsBuildStatus == {"SUCCESS", "WARN", "ERROR", "UNKNOWN"}

----------------------------------------------------------------------------
(* Objects *)

\* the object without properties; also this.state before the first setState
EmptyObject == [k \in {} |-> ""]

\* null
Null == [null |-> TRUE]

IsNull(o) == "null" \in DOMAIN o

Has(o, k) == k \in DOMAIN o

\* !!o[k] for a string property
TruthyStr(o, k) == Has(o, k) /\ o[k] # ""

\* a setState that replaces the state by the update
MergeReplace(old, update) == update

\* React's setState: the update's properties overwrite, the others stay
Merge(old, update) == update @@ old

----------------------------------------------------------------------------
(* Inputs *)

Widgets == {"w1", "w2"}

MaxJobs == 2

\* how many unsettled cycles of one instance the environment looks at
MaxInFlight == 2

ChildNames == <<"unit", "deploy", "nightly">>

JitterValues == {0, 499}

WidgetProps ==
    { [server |-> "ci", id |-> "folder"],
      [server |-> "ci", id |-> "folder", name |-> "My Build"] }

\* single-job shape: has the build list; every build status, building or not
SingleJobResponses ==
    { [displayName |-> IF g THEN "" ELSE "Job X",
       url |-> "http://ci/job/x",
       builds |-> IF s \in {"SUCCESS", "ERROR"} THEN <<1, 2>> ELSE <<>>,
       lastBuild |-> IF s \in {"SUCCESS", "ERROR"} THEN [number |-> 2] ELSE Null,
       status |-> s, building |-> g] :
        s \in JenkinsBuildStatus, g \in BOOLEAN }

\* folder shape: has child jobs
MultiJobResponses ==
    { [displayName |-> "Folder", jobs |-> [i \in 1..n |-> [name |-> ChildNames[i]]]] :
        n \in 0..MaxJobs }

\* neither shape
UnsupportedResponses == { [displayName |-> "View", views |-> <<>>] }

JobResponses == SingleJobResponses \cup MultiJobResponses \cup UnsupportedResponses

BuildResponses ==
    { [timestamp |-> 0, progress |-> 0], [timestamp |-> 1000, progress |-> 50] }

----------------------------------------------------------------------------
(* JenkinsClient (./JenkinsClient): response classification and accessors *)

isSingleJob(job) == Has(job, "builds")

isMultiJob(job) == Has(job, "jobs")

getBuildStatus(job) == job.status

isBuilding(job) == job.building

getProgressPercent(build) == build.progress

----------------------------------------------------------------------------
(* JenkinsJobComponent *)

getDisplayNameFromPropOrState(w) ==
    IF TruthyStr(state[w], "name")
    THEN state[w].name
    ELSE IF TruthyStr(props[w], "name") THEN props[w].name ELSE props[w].id

\* an asStatusStyle that shows a warning as an error
asStatusStyleWarnAsError(job) ==
    LET status == getBuildStatus(job) IN
    IF status = "SUCCESS" THEN STATUS_SUCCESS
    ELSE IF status = "WARN" THEN STATUS_ERROR
    ELSE IF status = "ERROR" THEN STATUS_ERROR
    ELSE STATUS_NONE

asStatusStyle(job) ==
    LET status == getBuildStatus(job) IN
    IF status = "SUCCESS" THEN STATUS_SUCCESS
    ELSE IF status = "WARN" THEN STATUS_WARN
    ELSE IF status = "ERROR" THEN STATUS_ERROR
    ELSE STATUS_NONE

\* a name that prefers the job's displayName to the explicit name property
JobNameDisplayFirst(w, job) ==
    LET name == IF TruthyStr(job, "displayName") THEN job.displayName
                ELSE IF Has(props[w], "name") THEN props[w].name ELSE ""
    IN IF name = "" THEN props[w].id ELSE name

\* the name loadJob's success callback determines
JobName(w, job) ==
    LET name == IF TruthyStr(props[w], "name") THEN props[w].name
                ELSE IF Has(job, "displayName") THEN job.displayName ELSE ""
    IN IF name = "" THEN props[w].id ELSE name

\* the state loadJob resolves with for a single job and its last build
JobStateOf(name, job, build) ==
    [ name           |-> name,
      url            |-> job.url,
      loadStatus     |-> LOADING_DONE,
      buildCount     |-> IF Has(job, "builds") THEN Len(job.builds) ELSE 0,
      buildStatus    |-> asStatusStyle(job),
      building       |-> isBuilding(job),
      buildProgress  |-> getProgressPercent(build),
      buildTimestamp |-> build.timestamp ]

\* the state loadJob resolves with for a folder
MultiJobStateOf(w, job) ==
    [ name       |-> getDisplayNameFromPropOrState(w),
      loadStatus |-> LOADING_DONE,
      jobs       |-> job.jobs ]

\* the state loadJob resolves with when client.read rejects
ErrorStateOf(w) ==
    [ name        |-> getDisplayNameFromPropOrState(w),
      loadStatus  |-> LOADING_ERROR,
      buildStatus |-> STATUS_NONE ]

(* window timers *)

\* window.setTimeout returns a handle no pending timer and no instance holds
FreshHandle ==
    LET used == {t.handle : t \in timers} \cup {triggerHandle[w] : w \in Widgets}
    IN CHOOSE h \in 1..(Cardinality(used) + 1) : h \notin used

ClearTimeout(tm, handle) == {t \in tm : t.handle # handle}

HasTimer(w) == \E t \in timers : t.owner = w

RemoveAt(s, i) == SubSeq(s, 1, i - 1) \o SubSeq(s, i + 1, Len(s))

\* this._triggerHandle = window.setTimeout(() => this.triggerLoadJob(), interval)
Reschedule(w, c) ==
    /\ timers' = timers \cup {[handle |-> FreshHandle, owner |-> w, delay |-> c.interval]}
    /\ triggerHandle' = [triggerHandle EXCEPT ![w] = FreshHandle]

\* a catch handler that swallows the failure without the retry
CatchHandlerNoRetry(w, c) == UNCHANGED <<timers, triggerHandle>>

\* a catch handler that backs off: the retry after a failure waits twice as long
CatchHandlerBackoff(w, c) == Reschedule(w, [c EXCEPT !.interval = 2 * @])

\* the catch handler of triggerLoadJob
CatchHandler(w, c) == Reschedule(w, c)

\* the then handler of triggerLoadJob; a throwing setState (the update applied
\* or not) lands in the catch handler
ThenHandler(w, c, newState, throws) ==
    LET merged == [state EXCEPT ![w] = Merge(@, newState)] IN
    IF throws
    THEN /\ state' \in {state, merged}
         /\ CatchHandler(w, c)
    ELSE /\ state' = merged
         /\ Reschedule(w, c)

\* a triggerLoadJob that schedules the next refresh before its fetch settles
TriggerLoadJobEager(w, jitter, tm) ==
    /\ state' = [state EXCEPT ![w] =
                    Merge(@, [name |-> getDisplayNameFromPropOrState(w),
                              loadStatus |-> LOADING])]
    /\ cycles' = [cycles EXCEPT ![w] =
                    Append(@, [phase |-> "read", interval |-> refreshInterval + jitter])]
    /\ timers' = tm \cup {[handle |-> FreshHandle, owner |-> w,
                           delay |-> refreshInterval + jitter]}
    /\ triggerHandle' = [triggerHandle EXCEPT ![w] = FreshHandle]
    /\ UNCHANGED lastCycle

\* triggerLoadJob up to the fetch it issues; tm: the window's timers on entry
TriggerLoadJob(w, jitter, tm) ==
    /\ state' = [state EXCEPT ![w] =
                    Merge(@, [name |-> getDisplayNameFromPropOrState(w),
                              loadStatus |-> LOADING])]
    /\ cycles' = [cycles EXCEPT ![w] =
                    Append(@, [phase |-> "read", interval |-> refreshInterval + jitter])]
    /\ timers' = tm
    /\ UNCHANGED <<triggerHandle, lastCycle>>

componentWillMount(w, jitter) ==
    /\ lifecycle[w] = "constructed"
    /\ lifecycle' = [lifecycle EXCEPT ![w] = "mounted"]
    /\ TriggerLoadJob(w, jitter, timers)
    /\ UNCHANGED <<props, rest, now, tile>>

\* a componentWillUnmount for a handle kept in a field shared by the instances
componentWillUnmountSharedHandle(w) ==
    /\ lifecycle[w] = "mounted"
    /\ lifecycle' = [lifecycle EXCEPT ![w] = "unmounted"]
    /\ timers' = {t \in timers : t.handle \notin {triggerHandle[v] : v \in Widgets}}
    /\ UNCHANGED <<props, state, triggerHandle, cycles, lastCycle, rest, now, tile>>

componentWillUnmount(w) ==
    /\ lifecycle[w] = "mounted"
    /\ lifecycle' = [lifecycle EXCEPT ![w] = "unmounted"]
    /\ timers' = ClearTimeout(timers, triggerHandle[w])
    /\ UNCHANGED <<props, state, triggerHandle, cycles, lastCycle, rest, now, tile>>

\* a timer that repeats: it stays pending after its callback ran
TimerFiresRepeating(t, jitter) ==
    /\ t \in timers
    /\ TriggerLoadJob(t.owner, jitter, timers)
    /\ UNCHANGED <<props, lifecycle, rest, now, tile>>

\* a pending timeout fires its callback, () => this.triggerLoadJob()
TimerFires(t, jitter) ==
    /\ t \in timers
    /\ TriggerLoadJob(t.owner, jitter, timers \ {t})
    /\ UNCHANGED <<props, lifecycle, rest, now, tile>>

\* client.read resolves: the success callback of loadJob, and what follows it
ReadResolves(w, i, job, throws) ==
    /\ i \in 1..Len(cycles[w])
    /\ cycles[w][i].phase = "read"
    /\ LET c == cycles[w][i] IN
       IF isSingleJob(job)
       THEN /\ ~throws
            /\ cycles' = [cycles EXCEPT ![w][i] =
                            [phase |-> "readBuild", interval |-> c.interval,
                             job |-> job, name |-> JobName(w, job)]]
            /\ UNCHANGED <<state, timers, triggerHandle, lastCycle>>
       ELSE IF isMultiJob(job)
       THEN /\ cycles' = [cycles EXCEPT ![w] = RemoveAt(@, i)]
            /\ ThenHandler(w, c, MultiJobStateOf(w, job), throws)
            /\ lastCycle' = [lastCycle EXCEPT ![w] =
                               IF throws THEN [outcome |-> "apply-error"]
                               ELSE [outcome |-> "multi", job |-> job]]
       ELSE /\ ~throws
            /\ cycles' = [cycles EXCEPT ![w] = RemoveAt(@, i)]
            /\ CatchHandler(w, c)
            /\ lastCycle' = [lastCycle EXCEPT ![w] = [outcome |-> "unsupported"]]
            /\ UNCHANGED state
    /\ UNCHANGED <<props, lifecycle, rest, now, tile>>

\* client.read rejects: the error callback of loadJob, and what follows it
ReadRejects(w, i, throws) ==
    /\ i \in 1..Len(cycles[w])
    /\ cycles[w][i].phase = "read"
    /\ cycles' = [cycles EXCEPT ![w] = RemoveAt(@, i)]
    /\ ThenHandler(w, cycles[w][i], ErrorStateOf(w), throws)
    /\ lastCycle' = [lastCycle EXCEPT ![w] =
                       [outcome |-> IF throws THEN "apply-error" ELSE "read-error"]]
    /\ UNCHANGED <<props, lifecycle, rest, now, tile>>

\* client.readBuild resolves
ReadBuildResolves(w, i, build, throws) ==
    /\ i \in 1..Len(cycles[w])
    /\ cycles[w][i].phase = "readBuild"
    /\ LET c == cycles[w][i] IN
       /\ cycles' = [cycles EXCEPT ![w] = RemoveAt(@, i)]
       /\ ThenHandler(w, c, JobStateOf(c.name, c.job, build), throws)
       /\ lastCycle' = [lastCycle EXCEPT ![w] =
                          IF throws THEN [outcome |-> "apply-error"]
                          ELSE [outcome |-> "single", job |-> c.job, build |-> build]]
    /\ UNCHANGED <<props, lifecycle, rest, now, tile>>

\* client.readBuild rejects: nothing in loadJob handles it
ReadBuildRejects(w, i) ==
    /\ i \in 1..Len(cycles[w])
    /\ cycles[w][i].phase = "readBuild"
    /\ cycles' = [cycles EXCEPT ![w] = RemoveAt(@, i)]
    /\ CatchHandler(w, cycles[w][i])
    /\ lastCycle' = [lastCycle EXCEPT ![w] = [outcome |-> "build-error"]]
    /\ UNCHANGED <<props, lifecycle, state, rest, now, tile>>

----------------------------------------------------------------------------
(* The widget specification: one instance, constructed and not yet mounted *)

RestIdle == rest = [phase |-> "idle"]

RenderIdle == now = 0 /\ tile = Null

\* the instances in ws pass the constructor; this.state is still undefined
InitWidgets(ws) ==
    /\ props \in [Widgets -> WidgetProps]
    /\ \A w \in Widgets \ ws : props[w] = [server |-> "ci", id |-> "folder"]
    /\ lifecycle = [w \in Widgets |-> IF w \in ws THEN "constructed" ELSE "absent"]
    /\ state = [w \in Widgets |-> EmptyObject]
    /\ triggerHandle = [w \in Widgets |-> 0]
    /\ timers = {}
    /\ cycles = [w \in Widgets |-> <<>>]
    /\ lastCycle = [w \in Widgets |-> [outcome |-> "none"]]

Init == InitWidgets({"w1"}) /\ RestIdle /\ RenderIdle

Next ==
    \/ \E w \in Widgets, j \in JitterValues : componentWillMount(w, j)
    \/ \E w \in Widgets : componentWillUnmount(w)
    \/ \E t \in timers, j \in JitterValues : TimerFires(t, j)
    \/ \E w \in Widgets, i \in 1..MaxInFlight, job \in JobResponses, th \in BOOLEAN :
          ReadResolves(w, i, job, th)
    \/ \E w \in Widgets, i \in 1..MaxInFlight, th \in BOOLEAN : ReadRejects(w, i, th)
    \/ \E w \in Widgets, i \in 1..MaxInFlight, b \in BuildResponses, th \in BOOLEAN :
          ReadBuildResolves(w, i, b, th)
    \/ \E w \in Widgets, i \in 1..MaxInFlight : ReadBuildRejects(w, i)

Spec == Init /\ [][Next]_vars

(* The same instance under fair scheduling: every issued fetch settles and
   every pending timer fires.  One response of each shape is enough to drive
   every path of the cycle. *)

LiveJobResponses ==
    { j \in JobResponses :
        \/ isSingleJob(j) /\ j.status = "SUCCESS" /\ ~j.building
        \/ ~isSingleJob(j) /\ isMultiJob(j) /\ Len(j.jobs) = 1
        \/ ~isSingleJob(j) /\ ~isMultiJob(j) }

LiveBuildResponses == { b \in BuildResponses : b.timestamp # 0 }

Settles(w) ==
    \/ \E i \in 1..MaxInFlight, job \in LiveJobResponses, th \in BOOLEAN :
          ReadResolves(w, i, job, th)
    \/ \E i \in 1..MaxInFlight, th \in BOOLEAN : ReadRejects(w, i, th)
    \/ \E i \in 1..MaxInFlight, b \in LiveBuildResponses, th \in BOOLEAN :
          ReadBuildResolves(w, i, b, th)
    \/ \E i \in 1..MaxInFlight : ReadBuildRejects(w, i)

Fires(w) == \E t \in timers, j \in JitterValues : t.owner = w /\ TimerFires(t, j)

FairNext ==
    \/ \E w \in Widgets, j \in JitterValues : componentWillMount(w, j)
    \/ \E w \in Widgets : componentWillUnmount(w)
    \/ \E w \in Widgets : Fires(w)
    \/ \E w \in Widgets : Settles(w)

FairSpec ==
    /\ Init
    /\ [][FairNext]_vars
    /\ \A w \in Widgets : WF_vars(Settles(w)) /\ WF_vars(Fires(w))

(* The instances specification: sibling instances, each constructed from
   the properties it is given, mounted, polling and unmounted on its own.
   A job fetch answers with a single job or fails. *)

\* properties a parent may pass: with and without a name, and with a missing
\* or empty server or id
CandidateProps ==
    { [server |-> "ci", id |-> "folder/job/unit"],
      [server |-> "ci", id |-> "folder/job/deploy", name |-> "Deploy"],
      [id |-> "folder/job/unit"],
      [server |-> "", id |-> "folder/job/unit", name |-> "Unit"],
      [server |-> "ci"],
      [server |-> "ci", id |-> "", name |-> "Unit"] }

\* a constructor that checks the server alone
constructorServerOnly(w, p) ==
    /\ lifecycle[w] = "absent"
    /\ props' = [props EXCEPT ![w] = p]
    /\ lifecycle' = [lifecycle EXCEPT ![w] =
                        IF ~TruthyStr(p, "server") THEN "failed" ELSE "constructed"]
    /\ UNCHANGED <<state, triggerHandle, timers, cycles, lastCycle, rest, now, tile>>

\* new JenkinsJobComponent(p): throws ("failed") when server or id is missing
\* or empty
constructor(w, p) ==
    /\ lifecycle[w] = "absent"
    /\ props' = [props EXCEPT ![w] = p]
    /\ lifecycle' = [lifecycle EXCEPT ![w] =
                        IF ~TruthyStr(p, "server") \/ ~TruthyStr(p, "id")
                        THEN "failed" ELSE "constructed"]
    /\ UNCHANGED <<state, triggerHandle, timers, cycles, lastCycle, rest, now, tile>>

SiblingJobResponses == { j \in LiveJobResponses : isSingleJob(j) }

InstancesInit ==
    /\ props = [w \in Widgets |-> EmptyObject]
    /\ lifecycle = [w \in Widgets |-> "absent"]
    /\ state = [w \in Widgets |-> EmptyObject]
    /\ triggerHandle = [w \in Widgets |-> 0]
    /\ timers = {}
    /\ cycles = [w \in Widgets |-> <<>>]
    /\ lastCycle = [w \in Widgets |-> [outcome |-> "none"]]
    /\ RestIdle
    /\ RenderIdle

InstancesNext ==
    \/ \E w \in Widgets, p \in CandidateProps : constructor(w, p)
    \/ \E w \in Widgets : componentWillMount(w, 0)
    \/ \E w \in Widgets : componentWillUnmount(w)
    \/ \E t \in timers : TimerFires(t, 0)
    \/ \E w \in Widgets, job \in SiblingJobResponses : ReadResolves(w, 1, job, FALSE)
    \/ \E w \in Widgets : ReadRejects(w, 1, FALSE)
    \/ \E w \in Widgets, b \in LiveBuildResponses : ReadBuildResolves(w, 1, b, FALSE)
    \/ \E w \in Widgets : ReadBuildRejects(w, 1)

InstancesSpec == InstancesInit /\ [][InstancesNext]_vars

----------------------------------------------------------------------------
(* render *)

\* which branch render takes
RenderVariant(s) ==
    IF TruthyStr(s, "buildStatus") THEN "job"
    ELSE IF Has(s, "jobs") THEN "multi"
    ELSE "loading"

\* the child elements renderMultiJob creates
renderMultiJob(w) ==
    [i \in 1..Len(state[w].jobs) |->
        [server |-> props[w].server,
         id     |-> props[w].id \o "/job/" \o state[w].jobs[i].name]]

\* the child widgets of the element render returns
RenderedChildren(w) ==
    IF RenderVariant(state[w]) = "multi" THEN renderMultiJob(w) ELSE <<>>

\* the age computed by renderJob for a job built at buildTimestamp, rendered
\* at time t, without the clamp to 5
AgeBucketNoClamp(buildTimestamp, t) ==
    LET age == (2 * (t - buildTimestamp) + AgeIntervalMillis) \div (2 * AgeIntervalMillis)
    IN IF age < 0 THEN 0 ELSE age

\* the age computed by renderJob: Math.round((now - buildTimestamp) / interval)
\* (halves round up), then the clamp to 0..5
AgeBucket(buildTimestamp, t) ==
    LET age == (2 * (t - buildTimestamp) + AgeIntervalMillis) \div (2 * AgeIntervalMillis)
    IN IF age < 0 THEN 0 ELSE IF age > 5 THEN 5 ELSE age

\* a renderJob that computes the age of a job that is building too
renderJobAgeWhileBuilding(job, t) ==
    LET aged == job.buildTimestamp # 0
        age  == IF aged THEN AgeBucket(job.buildTimestamp, t) ELSE 0
    IN [ variant   |-> "job",
         className |-> <<"status", job.loadStatus, job.buildStatus>>
                       \o (IF job.building THEN <<"building">> ELSE <<>>)
                       \o (IF aged /\ age # 0 THEN <<"age-" \o ToString(age)>> ELSE <<>>),
         progress  |-> IF job.building THEN <<job.buildProgress>> ELSE <<>>,
         href      |-> job.url,
         text      |-> job.name,
         elapsed   |-> t - job.buildTimestamp ]
       @@ (IF aged THEN [age |-> age] ELSE EmptyObject)

\* the element renderJob returns at time t; age (when it is not null) and
\* elapsed are the locals of the call, kept to state properties of them
renderJob(job, t) ==
    LET aged == ~job.building /\ job.buildTimestamp # 0
        age  == IF aged THEN AgeBucket(job.buildTimestamp, t) ELSE 0
    IN [ variant   |-> "job",
         className |-> <<"status", job.loadStatus, job.buildStatus>>
                       \o (IF job.building THEN <<"building">> ELSE <<>>)
                       \o (IF aged /\ age # 0 THEN <<"age-" \o ToString(age)>> ELSE <<>>),
         progress  |-> IF job.building THEN <<job.buildProgress>> ELSE <<>>,
         href      |-> job.url,
         text      |-> job.name,
         elapsed   |-> t - job.buildTimestamp ]
       @@ (IF aged THEN [age |-> age] ELSE EmptyObject)

\* render of an instance that shows a single job
RenderJob(w) ==
    /\ lifecycle[w] = "mounted"
    /\ RenderVariant(state[w]) = "job"
    /\ tile' = renderJob(state[w], now)
    /\ UNCHANGED <<props, lifecycle, state, triggerHandle, timers, cycles, lastCycle, rest, now>>

\* time passes
Tick(t) ==
    /\ t # now
    /\ now' = t
    /\ UNCHANGED <<props, lifecycle, state, triggerHandle, timers, cycles, lastCycle, rest, tile>>

(* The render specification: an instance after its first successful
   single-job cycle, rendered at different times *)

\* the build time of the rendered jobs
BuildTime == 7 * AgeIntervalMillis

RenderBuildResponses ==
    { [timestamp |-> 0, progress |-> 0], [timestamp |-> BuildTime, progress |-> 50] }

\* around every rounding boundary of the age, from a build time in the future
\* to one more than five intervals ago
Times ==
    { BuildTime + k * (AgeIntervalMillis \div 2) + d :
        k \in {-3, -1, 1, 3, 5, 7, 9, 11}, d \in {-1, 0} }

RenderInit ==
    /\ props = [w \in Widgets |-> [server |-> "ci", id |-> "folder"]]
    /\ lifecycle = [w \in Widgets |-> IF w = "w1" THEN "mounted" ELSE "absent"]
    /\ \E job \in SingleJobResponses, build \in RenderBuildResponses :
          /\ state = [w \in Widgets |->
                        IF w = "w1" THEN JobStateOf(JobName(w, job), job, build)
                        ELSE EmptyObject]
          /\ lastCycle = [w \in Widgets |->
                            IF w = "w1"
                            THEN [outcome |-> "single", job |-> job, build |-> build]
                            ELSE [outcome |-> "none"]]
    /\ triggerHandle = [w \in Widgets |-> IF w = "w1" THEN 1 ELSE 0]
    /\ timers = {[handle |-> 1, owner |-> "w1", delay |-> refreshInterval]}
    /\ cycles = [w \in Widgets |-> <<>>]
    /\ RestIdle
    /\ now \in Times
    /\ tile = Null

RenderNext ==
    \/ \E w \in Widgets : RenderJob(w)
    \/ \E t \in Times : Tick(t)

RenderSpec == RenderInit /\ [][RenderNext]_vars

----------------------------------------------------------------------------
(* RestClient *)

(* An entity is the text of the response body, kept as its sequence of JSON
   tokens; the empty text is the empty sequence. *)

Punct(c) == [t |-> c, v |-> ""]

Str(v) == [t |-> "str", v |-> v]

EntityEmpty == <<>>

EntityJob ==
    << Punct("{"), Str("displayName"), Punct(":"), Str("Job X"), Punct(","),
       Str("color"), Punct(":"), Str("blue"), Punct("}") >>

EntityEmptyObject == << Punct("{"), Punct("}") >>

EntityNull == << [t |-> "null", v |-> ""] >>

EntityHtml == << [t |-> "junk", v |-> "<html>"] >>

EntityTruncated == << Punct("{"), Str("displayName"), Punct(":") >>

Entities ==
    {EntityEmpty, EntityJob, EntityEmptyObject, EntityNull, EntityHtml, EntityTruncated}

\* the text is { "k" : "v" , ... }
IsObjectText(ts) ==
    /\ Len(ts) >= 2
    /\ ts[1].t = "{"
    /\ ts[Len(ts)].t = "}"
    /\ LET n == Len(ts) - 2 IN
       \/ n = 0
       \/ /\ n % 4 = 3
          /\ \A j \in 1..n :
                ts[j + 1].t = CASE j % 4 = 1 -> "str"
                                [] j % 4 = 2 -> ":"
                                [] j % 4 = 3 -> "str"
                                [] OTHER     -> ","

\* JSON.parse: the value, or the SyntaxError it throws
JsonParse(ts) ==
    IF Len(ts) = 1 /\ ts[1].t = "null"
    THEN [ok |-> TRUE, value |-> Null]
    ELSE IF IsObjectText(ts)
    THEN LET keyAt == {j \in 2..(Len(ts) - 1) : (j - 1) % 4 = 1}
             last(k) == CHOOSE j \in keyAt :
                           ts[j].v = k /\ \A i \in keyAt : ts[i].v = k => i <= j
         IN [ok |-> TRUE,
             value |-> [k \in {ts[j].v : j \in keyAt} |-> ts[last(k) + 2].v]]
    ELSE [ok |-> FALSE, error |-> [name |-> "SyntaxError"]]

\* a success test that looks at the body alone
IsSuccessWithBodyAnyStatus(response) ==
    Has(response, "entity") /\ response.entity # <<>>

\* response.status.code === 200 && !!response.entity
IsSuccessWithBody(response) ==
    response.status.code = 200 /\ Has(response, "entity") /\ response.entity # <<>>

UnknownError(url) ==
    [url |-> url, code |-> "unknown",
     message |-> "Check JavaScript console and/or web traffic for more details."]

\* an asRestError without the branch for a response with a status
asRestErrorNoStatus(url, response) ==
    IF ~IsNull(response) /\ TruthyStr(response, "error")
    THEN [url |-> url, code |-> response.error,
          message |-> "Check JavaScript console and/or web traffic for more details."]
    ELSE UnknownError(url)

asRestError(url, response) ==
    IF ~IsNull(response)
    THEN IF TruthyStr(response, "error")
         THEN [url |-> url, code |-> response.error,
               message |-> "Check JavaScript console and/or web traffic for more details."]
         ELSE IF Has(response, "status") /\ Has(response.status, "code")
                 /\ response.status.code # 0
         THEN LET code == response.status.code
                  hasText == Has(response.status, "text")
              IN [url |-> url, code |-> ToString(code)]
                 @@ (IF code = 404
                     THEN [message |->
                             (IF hasText THEN response.status.text ELSE "undefined")
                             \o "Not found or not authenticated or not authorized."]
                     ELSE IF hasText THEN [message |-> response.status.text]
                     ELSE EmptyObject)
         ELSE UnknownError(url)
    ELSE UnknownError(url)

\* resolve and reject of the promise request returns: the first call settles
\* the promise, a later one changes nothing
Resolve(r, value) ==
    [r EXCEPT !.settleCalls = @ + 1,
              !.promise = IF @.state = "pending"
                          THEN [state |-> "fulfilled", value |-> value] ELSE @]

Reject(r, failure) ==
    [r EXCEPT !.settleCalls = @ + 1,
              !.promise = IF @.state = "pending"
                          THEN [state |-> "rejected",
                                value |-> asRestError(r.url, failure)] ELSE @]
       @@ [failure |-> failure]

\* the transport answers: the then callback of request
ThenCallback ==
    /\ rest.phase = "pending"
    /\ rest.transport.fulfilled
    /\ LET response == rest.transport.response IN
       rest' =
         IF ~Has(response, "status")
         THEN [rest EXCEPT !.phase = "thrown"] @@ [thrown |-> [name |-> "TypeError"]]
         ELSE IF IsSuccessWithBody(response)
         THEN LET parsed == JsonParse(response.entity) IN
              IF parsed.ok
              THEN [Resolve(rest, parsed.value) EXCEPT !.phase = "done"]
              ELSE [rest EXCEPT !.phase = "thrown"] @@ [thrown |-> parsed.error]
         ELSE [Reject(rest, response) EXCEPT !.phase = "done"]
    /\ UNCHANGED <<props, lifecycle, state, triggerHandle, timers, cycles, lastCycle, now, tile>>

\* the transport fails, or the then callback has thrown: the catch callback
CatchCallback ==
    /\ \/ rest.phase = "pending" /\ ~rest.transport.fulfilled
       \/ rest.phase = "thrown"
    /\ LET errorResponse == IF rest.phase = "thrown" THEN rest.thrown
                            ELSE rest.transport.error
       IN rest' = [Reject(rest, errorResponse) EXCEPT !.phase = "done"]
    /\ UNCHANGED <<props, lifecycle, state, triggerHandle, timers, cycles, lastCycle, now, tile>>

(* The request specification: one call of request(url), for every answer of
   the transport *)

Urls == {"http://ci/job/folder/api/json", "http://ci/job/folder/lastBuild/api/json"}

Statuses ==
    { [code |-> 200, text |-> "OK"], [code |-> 404], [code |-> 404, text |-> "Not Found"],
      [code |-> 500, text |-> "Server Error"], [code |-> 0] }

Responses ==
    { [status |-> st, entity |-> e] : st \in Statuses, e \in Entities }
    \cup { [status |-> st] : st \in Statuses }
    \cup { [entity |-> EntityJob] }

ErrorResponses ==
    { Null, EmptyObject, [error |-> "loaderror"],
      [error |-> "timeout", status |-> [code |-> 504]],
      [status |-> [code |-> 503, text |-> "Unavailable"]] }

TransportOutcomes ==
    { [fulfilled |-> TRUE, response |-> r] : r \in Responses }
    \cup { [fulfilled |-> FALSE, error |-> e] : e \in ErrorResponses }

RestInit ==
    /\ InitWidgets({})
    /\ RenderIdle
    /\ \E url \in Urls, out \in TransportOutcomes :
          rest = [phase |-> "pending", url |-> url, transport |-> out,
                  settleCalls |-> 0, promise |-> [state |-> "pending"]]

RestNext == ThenCallback \/ CatchCallback

RestSpec == RestInit /\ [][RestNext]_vars

----------------------------------------------------------------------------
(* Claims *)

FailedOutcomes == {"read-error", "build-error", "unsupported"}

\* the last cycle of w has completed and no later cycle has started
CycleDone(w) == lastCycle[w].outcome # "none" /\ cycles[w] = <<>>

\* C1: after every failed polling cycle (job fetch rejected, build fetch
\* rejected, unsupported response shape) the state has loadStatus
\* "loading-error".
C1_FailedCycleEndsInError ==
    \A w \in Widgets :
        (CycleDone(w) /\ lastCycle[w].outcome \in FailedOutcomes)
            => state[w].loadStatus = LOADING_ERROR

\* C2: polling never halts while the instance is mounted: every completed
\* cycle, however it ended, leaves the refresh timer of the instance pending
\* under the handle the instance holds, and from there a new fetch is
\* eventually issued unless the instance is unmounted first.
C2_PollingNeverHalts ==
    /\ [][\A w \in Widgets :
            Len(cycles'[w]) < Len(cycles[w])
                => \E t \in timers' : t.owner = w /\ t.handle = triggerHandle'[w]]_vars
    /\ \A w \in Widgets :
          (lifecycle[w] = "mounted" /\ CycleDone(w))
              ~> (cycles[w] # <<>> \/ lifecycle[w] = "unmounted")

\* a mounted instance polls again after a cycle that failed in the build fetch
C2_Witness ==
    \E w \in Widgets :
        /\ lifecycle[w] = "mounted"
        /\ lastCycle[w].outcome = "build-error"
        /\ cycles[w] # <<>>

\* C3: once componentWillUnmount has run, the instance issues no new fetch
\* (no triggerLoadJob runs for it).
C3_NoCallbackAfterUnmount ==
    [][\A w \in Widgets :
          lifecycle[w] = "unmounted" => Len(cycles'[w]) <= Len(cycles[w])]_vars

\* C4: an instance never has more than one polling cycle in flight.
C4_AtMostOneCycleInFlight ==
    \A w \in Widgets : Len(cycles[w]) <= 1

\* a cycle started by the refresh timer is in its build fetch
C4_Witness ==
    \E w \in Widgets :
        /\ lastCycle[w].outcome # "none"
        /\ Len(cycles[w]) = 1
        /\ cycles[w][1].phase = "readBuild"

\* C5: the state never carries the discriminating fields of two variants at
\* once: a truthy buildStatus and a jobs list.
C5_ExactlyOneVariant ==
    \A w \in Widgets :
        ~(TruthyStr(state[w], "buildStatus") /\ Has(state[w], "jobs"))

\* C6: after a cycle that returned a folder with N children the widget
\* renders exactly N child widgets, child i with the parent's server and the
\* id parentId/job/childName.
C6_FolderYieldsChildren ==
    \A w \in Widgets :
        lastCycle[w].outcome = "multi" =>
            LET js == lastCycle[w].job.jobs
                kids == RenderedChildren(w)
            IN /\ Len(kids) = Len(js)
               /\ \A i \in 1..Len(js) :
                     kids[i] = [server |-> props[w].server,
                                id |-> props[w].id \o "/job/" \o js[i].name]

\* C7: request resolves, with the parsed entity, exactly when the transport
\* answers with status 200 and a non-empty entity that is JSON; in every other
\* case it rejects; and it settles exactly once.
C7_ResolvesOnlyOnSuccessWithBody ==
    rest.phase = "done" =>
        LET out == rest.transport
            good == /\ out.fulfilled
                    /\ Has(out.response, "status")
                    /\ out.response.status.code = 200
                    /\ Has(out.response, "entity")
                    /\ out.response.entity \in {EntityJob, EntityEmptyObject, EntityNull}
        IN /\ rest.settleCalls = 1
           /\ rest.promise.state = (IF good THEN "fulfilled" ELSE "rejected")
           /\ good =>
                rest.promise.value =
                    CASE out.response.entity = EntityJob ->
                            [displayName |-> "Job X", color |-> "blue"]
                      [] out.response.entity = EntityEmptyObject -> EmptyObject
                      [] out.response.entity = EntityNull -> Null

\* a 404 with a JSON body has been rejected
C7_Witness ==
    /\ rest.phase = "done"
    /\ rest.transport.fulfilled
    /\ Has(rest.transport.response, "status")
    /\ rest.transport.response.status.code = 404
    /\ Has(rest.transport.response, "entity")
    /\ rest.transport.response.entity = EntityJob
    /\ rest.promise.state = "rejected"

\* C8: every rejection of request carries the requested url and a defined
\* code: the error field of the failure, else its status code as a string,
\* else "unknown".
C8_UniformErrorShape ==
    (rest.phase = "done" /\ rest.promise.state = "rejected") =>
        LET f == rest.failure
            e == rest.promise.value
        IN /\ Has(e, "url") /\ e.url = rest.url
           /\ Has(e, "code")
           /\ e.code # ""
           /\ e.code =
                IF ~IsNull(f) /\ Has(f, "error") /\ f.error # "" THEN f.error
                ELSE IF ~IsNull(f) /\ Has(f, "status") /\ Has(f.status, "code")
                        /\ f.status.code # 0
                THEN CASE f.status.code = 200 -> "200"
                       [] f.status.code = 404 -> "404"
                       [] f.status.code = 500 -> "500"
                       [] f.status.code = 503 -> "503"
                ELSE "unknown"

\* a response with a status code and no error field has been rejected
C8_Witness ==
    /\ rest.phase = "done"
    /\ rest.promise.state = "rejected"
    /\ ~IsNull(rest.failure)
    /\ ~Has(rest.failure, "error")
    /\ Has(rest.failure, "status")
    /\ rest.promise.value.code = "503"

StatusClassOf ==
    [s \in JenkinsBuildStatus |->
        CASE s = "SUCCESS" -> "success"
          [] s = "WARN"    -> "warning"
          [] s = "ERROR"   -> "error"
          [] OTHER         -> "none"]

\* C9: after a successful single-job cycle the buildStatus in the state is
\* one of success, warning, error, none: success for SUCCESS, warning for
\* WARN, error for ERROR and none for every other build status.
C9_BuildStatusClass ==
    \A w \in Widgets :
        lastCycle[w].outcome = "single" =>
            /\ Has(state[w], "buildStatus")
            /\ state[w].buildStatus \in {"success", "warning", "error", "none"}
            /\ state[w].buildStatus = StatusClassOf[lastCycle[w].job.status]

\* a job with build status WARN has been loaded after a failed cycle
C9_Witness ==
    \E w \in Widgets :
        /\ lastCycle[w].outcome = "single"
        /\ lastCycle[w].job.status = "WARN"
        /\ state[w].buildStatus = "warning"
        /\ Has(state[w], "jobs")

\* the multiple of the age interval nearest to an elapsed time (halves go up)
NearestInterval(e) ==
    CHOOSE k \in -3..7 :
        /\ (2 * k - 1) * AgeIntervalMillis <= 2 * e
        /\ 2 * e < (2 * k + 1) * AgeIntervalMillis

\* C10: a job that is not building and has a build timestamp gets an age;
\* the age is the elapsed time rounded to the nearest multiple of 6 hours,
\* 0 when that is negative and 5 when it is larger, so within 0..5; and of
\* two renders the one with the larger elapsed time has the larger or equal
\* age.
C10_AgeBucket ==
    /\ [](\A w \in Widgets :
            (tile # Null /\ lifecycle[w] = "mounted"
               /\ ~state[w].building /\ state[w].buildTimestamp # 0)
                => Has(tile, "age"))
    /\ [](Has(tile, "age") =>
            LET k == NearestInterval(tile.elapsed) IN
            /\ tile.age \in 0..5
            /\ tile.age = (IF k < 0 THEN 0 ELSE IF k > 5 THEN 5 ELSE k))
    /\ [][(Has(tile, "age") /\ Has(tile', "age")) =>
            /\ tile.elapsed <= tile'.elapsed => tile.age <= tile'.age
            /\ tile'.elapsed <= tile.elapsed => tile'.age <= tile.age]_vars

\* a job built five and a half intervals ago, which rounds to 6, has age 5
C10_Witness ==
    /\ Has(tile, "age")
    /\ 2 * tile.elapsed >= 11 * AgeIntervalMillis
    /\ tile.age = 5

\* the classes of an element
ClassesOf(el) == {el.className[i] : i \in 1..Len(el.className)}

AgeClasses == {"age-" \o ToString(k) : k \in 0..6}

\* C11: a rendered single-job tile has the class "building" and a progress
\* bar exactly when the state's building flag is true, whatever its
\* buildStatus class is, and the tile of a building job has no age class.
C11_BuildingStyle ==
    \A w \in Widgets :
        (tile # Null /\ lifecycle[w] = "mounted") =>
            /\ state[w].buildStatus \in ClassesOf(tile)
            /\ ("building" \in ClassesOf(tile)) <=> state[w].building
            /\ (tile.progress # <<>>) <=> state[w].building
            /\ state[w].building => tile.progress = <<state[w].buildProgress>>
            /\ state[w].building => ClassesOf(tile) \cap AgeClasses = {}

\* a building job whose last result is an error, built three intervals ago,
\* is rendered as building
C11_Witness ==
    \E w \in Widgets :
        /\ tile # Null
        /\ lifecycle[w] = "mounted"
        /\ state[w].building
        /\ state[w].buildStatus = "error"
        /\ state[w].buildTimestamp # 0
        /\ tile.elapsed >= 3 * AgeIntervalMillis
        /\ "building" \in ClassesOf(tile)

\* C12: every refresh timer waits the base interval plus a jitter of at most
\* 500 ms, after a failed cycle as after a successful one and however many
\* cycles failed before, and a timer is set only by the step that completes
\* a cycle of its instance.
C12_DelayRange ==
    /\ [](\A t \in timers : 5000 <= t.delay /\ t.delay <= 5500)
    /\ [][\A t \in timers' \ timers :
            /\ Len(cycles'[t.owner]) < Len(cycles[t.owner])
            /\ t.delay >= refreshInterval
            /\ t.delay - refreshInterval \in 0..500]_vars

\* the retry after a cycle that failed twice over (job fetch, then build
\* fetch) waits 5499 ms
C12_Witness ==
    \E t \in timers :
        /\ lastCycle[t.owner].outcome = "build-error"
        /\ state[t.owner].loadStatus = LOADING
        /\ Has(state[t.owner], "buildStatus")
        /\ ~Has(state[t.owner], "url")
        /\ t.delay = 5499

\* all that belongs to one instance: its properties, life cycle, state, timer
\* handle, pending timers and in-flight cycles
Local(w) ==
    <<props[w], lifecycle[w], state[w], triggerHandle[w], cycles[w], lastCycle[w],
      {t \in timers : t.owner = w}>>

\* C13: sibling instances are independent: a step of one instance
\* (construction, mount, start of a cycle, fetch success, fetch failure,
\* timer firing, unmount) leaves the state, the timer handle, the pending
\* timer and the in-flight cycle of every other instance as they were.
C13_SiblingsIndependent ==
    [][\A w \in Widgets :
          Local(w)' # Local(w) => \A v \in Widgets \ {w} : Local(v)' = Local(v)]_vars

\* one sibling has been unmounted after it held a timer, the other is
\* mounted and its refresh timer is still pending
C13_Witness ==
    \E w \in Widgets, v \in Widgets :
        /\ w # v
        /\ lifecycle[w] = "unmounted"
        /\ triggerHandle[w] # 0
        /\ lifecycle[v] = "mounted"
        /\ lastCycle[v].outcome = "read-error"
        /\ \E t \in timers : t.owner = v /\ t.handle = triggerHandle[v]

\* C17: constructing an instance without a server or without an id (missing
\* or empty) fails, and the failed instance has no state, no fetch and no
\* timer; with both present it is constructed, with or without a name.
C17_ConstructorValidates ==
    \A w \in Widgets :
        lifecycle[w] # "absent" =>
            /\ lifecycle[w] = "failed" <=>
                 \/ ~Has(props[w], "server") \/ props[w].server = ""
                 \/ ~Has(props[w], "id") \/ props[w].id = ""
            /\ lifecycle[w] = "failed" =>
                 /\ state[w] = EmptyObject
                 /\ cycles[w] = <<>>
                 /\ triggerHandle[w] = 0
                 /\ ~HasTimer(w)
                 /\ lastCycle[w].outcome = "none"

\* one construction failed for a missing id, with a name given; another
\* succeeded without a name and the instance polls
C17_Witness ==
    \E w \in Widgets, v \in Widgets :
        /\ lifecycle[w] = "failed"
        /\ Has(props[w], "server") /\ props[w].server # ""
        /\ Has(props[w], "name")
        /\ lifecycle[v] = "mounted"
        /\ ~Has(props[v], "name")
        /\ HasTimer(v)

\* C14: an instance never has a pending refresh timer and a cycle in flight
\* at once, and never two pending timers; a cycle starts only at mount or
\* when the timer of the instance fires.
C14_TimerXorCycle ==
    /\ [](\A w \in Widgets :
            /\ Cardinality({t \in timers : t.owner = w}) <= 1
            /\ ~(HasTimer(w) /\ cycles[w] # <<>>))
    /\ [][\A w \in Widgets :
            Len(cycles'[w]) > Len(cycles[w]) =>
                \/ lifecycle[w] = "constructed" /\ lifecycle'[w] = "mounted"
                \/ \E t \in timers \ timers' : t.owner = w]_vars

\* a mounted instance waits for its timer after a folder cycle
C14_Witness ==
    \E w \in Widgets :
        /\ lifecycle[w] = "mounted"
        /\ lastCycle[w].outcome = "multi"
        /\ HasTimer(w)
        /\ cycles[w] = <<>>

\* the step leaves every field of the state of w outside keys as it was, and
\* adds no field outside keys
FrameExcept(w, keys) ==
    /\ DOMAIN state'[w] \subseteq DOMAIN state[w] \cup keys
    /\ \A k \in DOMAIN state[w] \ keys :
          k \in DOMAIN state'[w] /\ state'[w][k] = state[w][k]

\* C15: a failed job fetch changes no field of the state but name,
\* loadStatus and buildStatus (url, building, buildProgress, buildTimestamp,
\* buildCount and jobs keep their values), and the start of a cycle changes
\* no field but name and loadStatus.
C15_FailureFrame ==
    [][\A w \in Widgets :
          /\ (Len(cycles'[w]) < Len(cycles[w]) /\ lastCycle'[w].outcome = "read-error")
                => /\ FrameExcept(w, {"name", "loadStatus", "buildStatus"})
                   /\ state'[w].loadStatus = LOADING_ERROR
                   /\ state'[w].buildStatus = "none"
          /\ Len(cycles'[w]) > Len(cycles[w])
                => /\ FrameExcept(w, {"name", "loadStatus"})
                   /\ state'[w].loadStatus = LOADING]_vars

\* after a failed job fetch the state still has the url and build time of an
\* earlier single-job cycle and the jobs of an earlier folder cycle
C15_Witness ==
    \E w \in Widgets :
        /\ lastCycle[w].outcome = "read-error"
        /\ state[w].loadStatus = LOADING_ERROR
        /\ Has(state[w], "url")
        /\ Has(state[w], "buildTimestamp") /\ state[w].buildTimestamp = 1000
        /\ Has(state[w], "jobs")

\* the name property when given, else the id
PropNameOrId(w) ==
    IF Has(props[w], "name") /\ props[w].name # "" THEN props[w].name ELSE props[w].id

\* C16: from mount on the name in the state is never empty; after a
\* successful single-job cycle it is the name property when given, else the
\* job's displayName when not empty, else the id; as long as no single-job
\* cycle has succeeded it is the name property, else the id; and a failed
\* cycle, like the start of a cycle, keeps the name the state has.
C16_DisplayName ==
    /\ [](\A w \in Widgets :
            lifecycle[w] \in {"mounted", "unmounted"} =>
                /\ Has(state[w], "name") /\ state[w].name # ""
                /\ lastCycle[w].outcome = "single" =>
                     state[w].name =
                        (IF Has(props[w], "name") /\ props[w].name # "" THEN props[w].name
                         ELSE IF lastCycle[w].job.displayName # ""
                         THEN lastCycle[w].job.displayName
                         ELSE props[w].id)
                /\ ~Has(state[w], "url") => state[w].name = PropNameOrId(w))
    /\ [][\A w \in Widgets :
            (\/ Len(cycles'[w]) > Len(cycles[w])
             \/ /\ Len(cycles'[w]) < Len(cycles[w])
                /\ lastCycle'[w].outcome \in FailedOutcomes)
                => state'[w].name =
                      (IF Has(state[w], "name") /\ state[w].name # ""
                       THEN state[w].name ELSE PropNameOrId(w))]_vars

\* without a name property a job without displayName is shown under its id,
\* after the displayName of an earlier response was shown
C16_Witness ==
    \E w \in Widgets :
        /\ lastCycle[w].outcome = "single"
        /\ ~Has(props[w], "name")
        /\ lastCycle[w].job.displayName = ""
        /\ state[w].name = props[w].id
        /\ Has(state[w], "jobs")

====
